---- MODULE Spec2Model ----
(***************************************************************************)
(* Multivendor checkout of the Vendure backend: an aggregate order is paid *)
(* through multivendorPaymentMethodHandler.createPayment (PaymentIntent),  *)
(* split per seller channel by MultivendorSellerStrategy.splitOrder, and   *)
(* every seller order gets two negative fee surcharges and a payment       *)
(* (Transfer) in MultivendorSellerStrategy.afterSellerOrdersCreated.       *)
(*                                                                         *)
(* Spec is one checkout, FairSpec the same with the awaited calls of       *)
(* afterSellerOrdersCreated returning, HandlerSpec the payment handler     *)
(* called any number of times for an order of any type.                    *)
(*                                                                         *)
(* Money is in cents.  Percentages are held in hundredths of a percent     *)
(* (2.99 % = 299), so total * (percent / 100) is total * p / 10000.  The   *)
(* IEEE-754 product total * (2.99 / 100) and the exact rational agree      *)
(* after Math.round for every total the model reaches: 2.99/100 and        *)
(* 3.99/100 round to doubles just above the exact value, an exact half is  *)
(* a double, and a non-half is at least 1/10000 away from a half.          *)
(***************************************************************************)
EXTENDS Integers, Sequences, FiniteSets, TLC

(* ------------------------------ bounds --------------------------------- *)
MaxLines == 3

(* --------------------------- the environment --------------------------- *)
\* the value undefined of a string (an account id, a metadata value)
Undefined == "undefined"

\* the value undefined of an id: falsy in `if (sellerChannelId)`
NoChannel == 0

\* the code of the payment method for connected accounts
CONNECTED_PAYMENT_METHOD_CODE == "connected-payment-method"

\* channelService.getDefaultChannel().id
DefaultChannelId == 1

\* the catalog: productVariant.channels and the line's price with tax
ProductVariants == {"v1", "v2", "v3", "v4"}

VariantChannels(v) ==
    CASE v = "v1" -> <<DefaultChannelId, 2>>
      [] v = "v2" -> <<3, DefaultChannelId>>
      [] v = "v3" -> <<DefaultChannelId, 2, 3>>
      [] OTHER    -> <<DefaultChannelId, 3>>

VariantPrice(v) ==
    CASE v = "v1" -> 5000
      [] v = "v2" -> 1234
      [] v = "v3" -> 700
      [] OTHER    -> 0

\* the shipping lines of the aggregate order
OrderShippingLines ==
    << [id |-> 1, priceWithTax |-> 0], [id |-> 2, priceWithTax |-> 500] >>

ShippingLineIds == {1, 2}

\* options.platformFeePercent, in hundredths of a percent; 299 is the
\* configured 2.99
PlatformFeePercents == {0, 299}

VARIABLES
    options,            \* MultivendorPluginOptions
    paymentMethod,      \* the local paymentMethod of afterSellerOrdersCreated
    connectedAccountId, \* seller channel -> seller.customFields.connectedAccountId
    order,              \* the aggregate order
    partialOrders,      \* what splitOrder returned
    sellerOrders,       \* the seller orders the framework created
    idx,                \* position of the loop in afterSellerOrdersCreated
    locals,             \* the locals of createPlatformAndStripeFeeSurcharges
    surchargeRepo,      \* rows saved through getRepository(ctx, Surcharge)
    stripe,             \* the requests sent to the payment gateway
    lastCall,           \* the latest createPayment call and its result
    settlement,         \* the settlePayment call for the latest payment
    pc

vars == << options, paymentMethod, connectedAccountId, order, partialOrders, sellerOrders, idx, locals, surchargeRepo, stripe,
           lastCall, settlement, pc >>

(* ------------------------------ helpers -------------------------------- *)
RECURSIVE SumPrices(_)
SumPrices(s) ==
    IF s = << >> THEN 0 ELSE Head(s).priceWithTax + SumPrices(Tail(s))

RECURSIVE SumListPrices(_)
SumListPrices(s) ==
    IF s = << >> THEN 0 ELSE Head(s).listPrice + SumListPrices(Tail(s))

\* channels.find(c => !idsAreEqual(c.id, defaultChannel.id)): the first
\* channel that is not the default channel, or undefined
FindSellerChannel(channels) ==
    LET hits == SelectSeq(channels, LAMBDA c : c # DefaultChannelId)
    IN IF hits = << >> THEN NoChannel ELSE Head(hits)

Range(s) == { s[k] : k \in DOMAIN s }

\* Math.round(num / den) for den > 0: floor(x + 1/2), a half goes up
MathRound(num, den) == (2 * num + den) \div (2 * den)

(* ---------------------- MultivendorSellerStrategy ---------------------- *)
\* setOrderLineSellerChannel: the seller channel of a variant that is in
\* exactly two channels, else nothing
setOrderLineSellerChannel(variant) ==
    LET channels == VariantChannels(variant) IN
    IF Len(channels) = 2
    THEN FindSellerChannel(channels)
    ELSE NoChannel

\* splitOrder without the test of sellerChannelId: a line without seller
\* is grouped under the undefined channel
RECURSIVE GroupLinesUnchecked(_, _)
GroupLinesUnchecked(lines, partials) ==
    IF lines = << >> THEN partials
    ELSE
      LET line == Head(lines)
          at == { k \in DOMAIN partials : partials[k].channelId = line.sellerChannelId }
      IN IF at = {}
         THEN GroupLinesUnchecked(Tail(lines),
                Append(partials,
                       [channelId |-> line.sellerChannelId,
                        shippingLines |-> << >>,
                        lines |-> << line >>,
                        state |-> "ArrangingPayment"]))
         ELSE LET k == CHOOSE j \in at : TRUE IN
              GroupLinesUnchecked(Tail(lines),
                [partials EXCEPT ![k].lines = Append(@, line)])

\* splitOrder without the lookup in the Map: every line opens a partial order
RECURSIVE GroupLinesNoLookup(_, _)
GroupLinesNoLookup(lines, partials) ==
    IF lines = << >> THEN partials
    ELSE IF Head(lines).sellerChannelId # NoChannel
         THEN GroupLinesNoLookup(Tail(lines),
                Append(partials,
                       [channelId |-> Head(lines).sellerChannelId,
                        shippingLines |-> << >>,
                        lines |-> << Head(lines) >>,
                        state |-> "ArrangingPayment"]))
         ELSE GroupLinesNoLookup(Tail(lines), partials)

\* the first loop of splitOrder: the Map of partial orders, in insertion
\* order, after the given lines
RECURSIVE GroupLines(_, _)
GroupLines(lines, partials) ==
    IF lines = << >> THEN partials
    ELSE
      LET line == Head(lines)
          sellerChannelId == line.sellerChannelId
          at == { k \in DOMAIN partials : partials[k].channelId = sellerChannelId }
      IN IF sellerChannelId # NoChannel
         THEN IF at = {}
              THEN GroupLines(Tail(lines),
                     Append(partials,
                            [channelId |-> sellerChannelId,
                             shippingLines |-> << >>,
                             lines |-> << line >>,
                             state |-> "ArrangingPayment"]))
              ELSE LET k == CHOOSE j \in at : TRUE IN
                   GroupLines(Tail(lines),
                     [partials EXCEPT ![k].lines = Append(@, line)])
         ELSE GroupLines(Tail(lines), partials)

\* splitOrder without the filter: every partial order gets every shipping line
AssignAllShippingLines(ord, partialOrder) ==
    [partialOrder EXCEPT !.shippingLines = ord.shippingLines]

\* the second loop of splitOrder: the shipping lines of one partial order
AssignShippingLines(ord, partialOrder) ==
    LET shippingLineIds == { l.shippingLineId : l \in Range(partialOrder.lines) } IN
    [partialOrder EXCEPT
       !.shippingLines =
          SelectSeq(ord.shippingLines, LAMBDA sl : sl.id \in shippingLineIds)]

splitOrder(ord) ==
    LET grouped == GroupLines(ord.lines, << >>) IN
    [k \in DOMAIN grouped |-> AssignShippingLines(ord, grouped[k])]

\* the percentage and the fixed part of the Stripe fee, 3.99 % + R$0.39
stripeFeePercent == 399
stripeFixedFee == 39

\* the platform fee cut off instead of rounded
PlatformFeeTruncated(totalCents, platformFeePercent) ==
    (totalCents * platformFeePercent) \div 10000

\* (B) of createPlatformAndStripeFeeSurcharges
PlatformFee(totalCents, platformFeePercent) ==
    MathRound(totalCents * platformFeePercent, 10000)

\* the Stripe fee taken at the platform's percentage
StripeFeeAtPlatformPercent(totalCents, platformFeePercent) ==
    MathRound(totalCents * platformFeePercent, 10000) + stripeFixedFee

\* (C) of createPlatformAndStripeFeeSurcharges
StripeFee(totalCents, platformFeePercent) ==
    MathRound(totalCents * stripeFeePercent, 10000) + stripeFixedFee

\* a surcharge that adds the fee instead of taking it off
FeeSurchargeAdded(sku, fee, sellerOrder) ==
    [taxLines |-> << >>,
     sku |-> sku,
     listPrice |-> fee,
     listPriceIncludesTax |-> TRUE,
     order |-> sellerOrder.id]

\* (D): a negative surcharge of the seller order, price including tax
FeeSurcharge(sku, fee, sellerOrder) ==
    [taxLines |-> << >>,
     sku |-> sku,
     listPrice |-> 0 - fee,
     listPriceIncludesTax |-> TRUE,
     order |-> sellerOrder.id]

(* ----------------------------- StripeService --------------------------- *)
\* String.prototype.toLowerCase on the currency codes in use
ToLowerCase(c) ==
    CASE c = "BRL" -> "brl"
      [] c = "JPY" -> "jpy"
      [] OTHER     -> c

\* getAmountInStripeMinorUnits (stripe-utils): a currency without a
\* fraction part is sent in whole units
CurrencyHasFractionPart(c) == c # "JPY"

getAmountInStripeMinorUnits(amount, currencyCode) ==
    IF CurrencyHasFractionPart(currencyCode) THEN amount ELSE MathRound(amount, 100)

\* the outcomes of one call into StripeService:
\*   noClient  getStripeClient throws (no enabled or eligible method, no key)
\*   apiError  the request is sent and the gateway rejects it
\*   noSecret  the PaymentIntent comes back without client_secret
\*   ok        the request is sent and the object comes back
TransferOutcomes == {"noClient", "apiError", "ok"}
PaymentIntentOutcomes == {"noClient", "apiError", "noSecret", "ok"}

ErrorMessage(out) ==
    CASE out = "noClient" -> "No enabled Stripe payment method found"
      [] out = "apiError" -> "stripe api error"
      [] out = "noSecret" -> "Failed to create payment intent"
      [] OTHER            -> "none"

\* the request with destination and transfer group mixed up
TransferRequestMixedUp(ord, params) ==
    [amount |-> getAmountInStripeMinorUnits(params.amount, ord.currencyCode),
     currency |-> ToLowerCase(params.currency),
     destination |-> params.transferGroup,
     transfer_group |-> params.connectedAccountId,
     order |-> ord.id]

\* createTransfer: the request handed to stripe.transfers.create
TransferRequest(ord, params) ==
    [amount |-> getAmountInStripeMinorUnits(params.amount, ord.currencyCode),
     currency |-> ToLowerCase(params.currency),
     destination |-> params.connectedAccountId,
     transfer_group |-> params.transferGroup,
     order |-> ord.id]

\* paymentIntentCreateParams, step 3: the connected account of the first
\* non-default channel, over the lines and their variant's channels, whose
\* seller has one
RECURSIVE FirstConnectedAccount(_, _)
FirstConnectedAccount(channels, accounts) ==
    IF channels = << >> THEN Undefined
    ELSE IF /\ Head(channels) # DefaultChannelId
            /\ accounts[Head(channels)] # Undefined
         THEN accounts[Head(channels)]
         ELSE FirstConnectedAccount(Tail(channels), accounts)

RECURSIVE LineChannels(_)
LineChannels(lines) ==
    IF lines = << >> THEN << >>
    ELSE VariantChannels(Head(lines).productVariantId) \o LineChannels(Tail(lines))

\* paymentIntentCreateParams, steps 4 and 5
paymentIntentCreateParams(ord, opts, account) ==
    LET totalWithTax == ord.totalWithTax
        platformFeeAmount == MathRound(totalWithTax * opts.platformFeePercent, 10000)
        stripeFeeAmount == MathRound(totalWithTax * stripeFeePercent, 10000) + stripeFixedFee
    IN [amount |-> totalWithTax,
        currency |-> "brl",
        on_behalf_of |-> account,
        destination |-> account,
        application_fee_amount |-> platformFeeAmount + stripeFeeAmount]

\* the customer of the PaymentIntent: with storeCustomersInStripe and an
\* active user, the Stripe customer of the order's customer; else none
StripeCustomerId(ord) == ord.customer

\* the request whose key is the order's code alone
PaymentIntentRequestKeyedByCode(ord, opts, account) ==
    LET additionalParams == paymentIntentCreateParams(ord, opts, account)
    IN [amount |-> additionalParams.amount,
        currency |-> additionalParams.currency,
        on_behalf_of |-> additionalParams.on_behalf_of,
        destination |-> additionalParams.destination,
        application_fee_amount |-> additionalParams.application_fee_amount,
        customer |-> StripeCustomerId(ord),
        idempotencyKey |-> ord.code,
        order |-> ord.id]

\* createPaymentIntentWithId: the request handed to stripe.paymentIntents.create;
\* the additional parameters are spread over amount and currency
PaymentIntentRequest(ord, opts, account) ==
    LET amountInMinorUnits == getAmountInStripeMinorUnits(ord.totalWithTax, ord.currencyCode)
        additionalParams == paymentIntentCreateParams(ord, opts, account)
    IN [amount |-> additionalParams.amount,
        currency |-> additionalParams.currency,
        on_behalf_of |-> additionalParams.on_behalf_of,
        destination |-> additionalParams.destination,
        application_fee_amount |-> additionalParams.application_fee_amount,
        customer |-> StripeCustomerId(ord),
        idempotencyKey |-> ord.code \o "_" \o ToString(amountInMinorUnits),
        order |-> ord.id]

(* -------------------- multivendorPaymentMethodHandler ------------------ *)
\* metadata[key], undefined when the key is absent
Get(metadata, key) ==
    IF key \in DOMAIN metadata THEN metadata[key] ELSE Undefined

\* falsy strings: undefined and the empty string
Falsy(v) == v = Undefined \/ v = ""

\* no object came back from the gateway
NoResponse == [id |-> Undefined]

\* the failure reported as an error of the payment process
DeclinedAsError(amount, message) ==
    [amount |-> amount,
     state |-> "Error",
     metadata |-> ("errorMessage" :> message)]

\* the result of either catch block
Declined(amount, message) ==
    [amount |-> amount,
     state |-> "Declined",
     metadata |-> ("errorMessage" :> message)]

\* the result after a Transfer: settled at once, the metadata spread under
\* transfer_group
SellerSettled(amount, metadata, transfer, transfer_group) ==
    [amount |-> amount,
     state |-> "Settled",
     transactionId |-> transfer.id,
     metadata |-> ("transfer_group" :> transfer_group) @@ metadata]

\* the two-step flow: the PaymentIntent is authorized, settlePayment captures
PlatformAuthorized(amount, metadata, pi, ord) ==
    [amount |-> amount,
     state |-> "Authorized",
     transactionId |-> pi.id,
     metadata |-> ("clientSecret" :> pi.clientSecret)
                  @@ ("transfer_group" :> ord.code)
                  @@ metadata]

\* the result after a PaymentIntent: settled at once, the metadata spread
\* under clientSecret and transfer_group
PlatformSettled(amount, metadata, pi, ord) ==
    [amount |-> amount,
     state |-> "Settled",
     transactionId |-> pi.id,
     metadata |-> ("clientSecret" :> pi.clientSecret)
                  @@ ("transfer_group" :> ord.code)
                  @@ metadata]

\* the Seller branch without the test of connectedAccountId
SellerPaymentUnchecked(ord, amount, metadata, out, nTransfers) ==
    LET params == [connectedAccountId |-> Get(metadata, "connectedAccountId"),
                   amount |-> amount,
                   currency |-> ord.currencyCode,
                   transferGroup |-> Get(metadata, "transfer_group")]
        transfer == [id |-> "tr_" \o ToString(nTransfers + 1)]
    IN IF out = "ok"
       THEN [result |-> SellerSettled(amount, metadata, transfer,
                                      Get(metadata, "transfer_group")),
             response |-> transfer,
             transferCalls |-> << params >>,
             transferRequests |-> << TransferRequest(ord, params) >>,
             paymentIntentCalls |-> 0, paymentIntentRequests |-> << >>]
       ELSE [result |-> Declined(amount, ErrorMessage(out)),
             response |-> NoResponse,
             transferCalls |-> << params >>,
             transferRequests |->
                IF out = "noClient" THEN << >> ELSE << TransferRequest(ord, params) >>,
             paymentIntentCalls |-> 0, paymentIntentRequests |-> << >>]

\* createPayment, the branch for order.type === OrderType.Seller.  The value
\* is the result together with what the call did: the createTransfer calls
\* it made and the Transfer requests that reached the gateway.
SellerPayment(ord, amount, metadata, out, nTransfers) ==
    LET connectedAccount == Get(metadata, "connectedAccountId")
        transfer_group == Get(metadata, "transfer_group")
        params == [connectedAccountId |-> connectedAccount,
                   amount |-> amount,
                   currency |-> ord.currencyCode,
                   transferGroup |-> transfer_group]
        transfer == [id |-> "tr_" \o ToString(nTransfers + 1)]
    IN IF Falsy(connectedAccount)
       THEN [result |-> Declined(amount,
                          "No \"connectedAccountId\" found in payment metadata"),
             response |-> NoResponse,
             transferCalls |-> << >>, transferRequests |-> << >>,
             paymentIntentCalls |-> 0, paymentIntentRequests |-> << >>]
       ELSE IF out = "ok"
       THEN [result |-> SellerSettled(amount, metadata, transfer, transfer_group),
             response |-> transfer,
             transferCalls |-> << params >>,
             transferRequests |-> << TransferRequest(ord, params) >>,
             paymentIntentCalls |-> 0, paymentIntentRequests |-> << >>]
       ELSE [result |-> Declined(amount, ErrorMessage(out)),
             response |-> NoResponse,
             transferCalls |-> << params >>,
             transferRequests |->
                IF out = "noClient" THEN << >> ELSE << TransferRequest(ord, params) >>,
             paymentIntentCalls |-> 0, paymentIntentRequests |-> << >>]

\* createPayment, the branch for every other order type
PlatformPayment(ord, amount, metadata, out, opts, accounts, nIntents) ==
    LET account == FirstConnectedAccount(LineChannels(ord.lines), accounts)
        request == PaymentIntentRequest(ord, opts, account)
        pi == [id |-> "pi_" \o ToString(nIntents + 1),
               clientSecret |-> "pi_" \o ToString(nIntents + 1) \o "_secret"]
    IN IF out = "noClient"
       THEN [result |-> Declined(amount, ErrorMessage(out)),
             response |-> NoResponse,
             transferCalls |-> << >>, transferRequests |-> << >>,
             paymentIntentCalls |-> 1, paymentIntentRequests |-> << >>]
       ELSE IF account = Undefined
       THEN [result |-> Declined(amount,
                          "Connected Account ID not found for order " \o ord.code),
             response |-> NoResponse,
             transferCalls |-> << >>, transferRequests |-> << >>,
             paymentIntentCalls |-> 1, paymentIntentRequests |-> << >>]
       ELSE IF out = "ok"
       THEN [result |-> PlatformSettled(amount, metadata, pi, ord),
             response |-> pi,
             transferCalls |-> << >>, transferRequests |-> << >>,
             paymentIntentCalls |-> 1, paymentIntentRequests |-> << request >>]
       ELSE [result |-> Declined(amount, ErrorMessage(out)),
             response |-> NoResponse,
             transferCalls |-> << >>, transferRequests |-> << >>,
             paymentIntentCalls |-> 1, paymentIntentRequests |-> << request >>]

\* createPayment with the test of the order type turned round
createPaymentInverted(ord, amount, metadata, out, opts, accounts, gateway) ==
    IF ord.type # "Seller"
    THEN SellerPayment(ord, amount, metadata, out, Len(gateway.transfers))
    ELSE PlatformPayment(ord, amount, metadata, out, opts, accounts,
                         Len(gateway.paymentIntents))

createPayment(ord, amount, metadata, out, opts, accounts, gateway) ==
    IF ord.type = "Seller"
    THEN SellerPayment(ord, amount, metadata, out, Len(gateway.transfers))
    ELSE PlatformPayment(ord, amount, metadata, out, opts, accounts,
                         Len(gateway.paymentIntents))

\* settlePayment answering that nothing was captured
settlePaymentFailing(ord, payment) ==
    [success |-> FALSE, errorMessage |-> "not captured"]

\* settlePayment: the StripeService is looked up and not used; the capture
\* is taken to have happened in createPayment
settlePayment(ord, payment) ==
    [success |-> TRUE]

\* the record kept of one createPayment call
CallRecord(ord, amount, metadata, out, done) ==
    [order |-> [id |-> ord.id, code |-> ord.code, type |-> ord.type,
                currencyCode |-> ord.currencyCode, totalWithTax |-> ord.totalWithTax],
     amount |-> amount, metadata |-> metadata, outcome |-> out,
     result |-> done.result,
     response |-> done.response,
     transferCalls |-> done.transferCalls,
     transferRequests |-> done.transferRequests,
     paymentIntentCalls |-> done.paymentIntentCalls,
     paymentIntentRequests |-> done.paymentIntentRequests]

NoCall == [outcome |-> "none"]

\* settlePayment has not been called for the latest payment
NoSettlement == [order |-> 0]

(* ------------------------- the order entities -------------------------- *)
RECURSIVE SumLinePrices(_)
SumLinePrices(s) ==
    IF s = << >> THEN 0 ELSE Head(s).linePriceWithTax + SumLinePrices(Tail(s))

\* Order.totalWithTax as OrderCalculator.calculateOrderTotals leaves it:
\* lines and surcharges (subTotalWithTax) plus shipping
TotalWithTax(lines, surcharges, shippingLines) ==
    SumLinePrices(lines) + SumListPrices(surcharges) + SumPrices(shippingLines)

\* the seller order the framework creates from one partial order, before
\* afterSellerOrdersCreated is called
NewSellerOrder(aggregate, partialOrder, k) ==
    [id |-> aggregate.id + k,
     code |-> aggregate.code \o "-S" \o ToString(k),
     type |-> "Seller",
     aggregateOrderId |-> aggregate.id,
     state |-> partialOrder.state,
     currencyCode |-> aggregate.currencyCode,
     channels |-> << partialOrder.channelId, DefaultChannelId >>,
     lines |-> partialOrder.lines,
     shippingLines |-> partialOrder.shippingLines,
     surcharges |-> << >>,
     payments |-> << >>,
     totalWithTax |-> TotalWithTax(partialOrder.lines, << >>, partialOrder.shippingLines)]

\* sellerOrder.channels.find(c => !idsAreEqual(c.id, defaultChannel.id))
SellerChannelOf(sellerOrder) ==
    FindSellerChannel(sellerOrder.channels)

\* the metadata a customer may send with addPaymentToOrder
CustomerMetadata ==
    { << >>,
      ("note" :> "gift") @@ ("transfer_group" :> "forged") }

NoLocals == [totalCents |-> 0, platformFee |-> 0, stripeFee |-> 0]

(* ------------------------------ the state ------------------------------ *)
Init ==
    /\ options \in [platformFeePercent : PlatformFeePercents, platformFeeSKU : {"MF"}]
    /\ paymentMethod = "unread"
    /\ connectedAccountId \in
          { (2 :> "acct_2") @@ (3 :> a) : a \in {Undefined, "acct_3"} }
    /\ order = [id |-> 100, code |-> "ORD", type |-> "Regular",
                customer |-> "cus_1",
                currencyCode |-> "BRL", lines |-> << >>,
                shippingLines |-> OrderShippingLines,
                totalWithTax |-> TotalWithTax(<< >>, << >>, OrderShippingLines)]
    /\ partialOrders = << >>
    /\ sellerOrders = << >>
    /\ idx = 0
    /\ locals = NoLocals
    /\ surchargeRepo = << >>
    /\ stripe = [paymentIntents |-> << >>, transfers |-> << >>]
    /\ lastCall = NoCall
    /\ settlement = NoSettlement
    /\ pc = "Active"

\* a gateway log in which a Transfer request is sent once only
SentOnce(gateway, done, out) ==
    [paymentIntents |->
        gateway.paymentIntents \o
        [k \in DOMAIN done.paymentIntentRequests |->
            [request |-> done.paymentIntentRequests[k], created |-> out # "apiError"]],
     transfers |->
        gateway.transfers \o
        SelectSeq([k \in DOMAIN done.transferRequests |->
                      [request |-> done.transferRequests[k], created |-> out = "ok"]],
                  LAMBDA sent : \A i \in DOMAIN gateway.transfers :
                                   gateway.transfers[i].request # sent.request)]

\* what a createPayment call leaves at the gateway
Sent(gateway, done, out) ==
    [paymentIntents |->
        gateway.paymentIntents \o
        [k \in DOMAIN done.paymentIntentRequests |->
            [request |-> done.paymentIntentRequests[k], created |-> out # "apiError"]],
     transfers |->
        gateway.transfers \o
        [k \in DOMAIN done.transferRequests |->
            [request |-> done.transferRequests[k], created |-> out = "ok"]]]

(* ----------------------------- the checkout ---------------------------- *)
\* the customer adds a line; setOrderLineSellerChannel assigns its seller
AddItemToOrder(variant, shippingLineId) ==
    /\ pc = "Active"
    /\ Len(order.lines) < MaxLines
    /\ LET line == [id |-> Len(order.lines) + 1,
                    productVariantId |-> variant,
                    sellerChannelId |-> setOrderLineSellerChannel(variant),
                    shippingLineId |-> shippingLineId,
                    linePriceWithTax |-> VariantPrice(variant)]
           lines == Append(order.lines, line)
       IN order' = [order EXCEPT
                      !.lines = lines,
                      !.totalWithTax = TotalWithTax(lines, << >>, order.shippingLines)]
    /\ UNCHANGED << settlement, options, paymentMethod, connectedAccountId, partialOrders, sellerOrders, idx, locals, surchargeRepo,
                    stripe, lastCall, pc >>

\* the customer pays the order: addPaymentToOrder calls createPayment for
\* the outstanding amount
AddPaymentToOrder(metadata, out) ==
    /\ pc = "Active"
    /\ order.lines # << >>
    /\ LET amount == order.totalWithTax
           done == createPayment(order, amount, metadata, out, options,
                                 connectedAccountId, stripe)
       IN /\ lastCall' = CallRecord(order, amount, metadata, out, done)
          /\ stripe' = Sent(stripe, done, out)
          /\ pc' = IF done.result.state = "Settled"
                  THEN "PaymentSettled" ELSE "PaymentDeclined"
    /\ UNCHANGED << settlement, options, paymentMethod, connectedAccountId, order,
                    partialOrders, sellerOrders, idx, locals, surchargeRepo >>

\* the order is paid: the framework asks the strategy to split it
SplitOrder ==
    /\ pc = "PaymentSettled"
    /\ partialOrders' = splitOrder(order)
    /\ pc' = "Split"
    /\ UNCHANGED << settlement, options, paymentMethod, connectedAccountId, order,
                    sellerOrders, idx, locals, surchargeRepo, stripe,
                    lastCall >>

\* the framework creates one seller order per partial order
CreateSellerOrders ==
    /\ pc = "Split"
    /\ sellerOrders' = [k \in DOMAIN partialOrders |->
                           NewSellerOrder(order, partialOrders[k], k)]
    /\ order' = [order EXCEPT !.type = "Aggregate"]
    /\ pc' = "SellerOrdersCreated"
    /\ UNCHANGED << settlement, options, paymentMethod, connectedAccountId, partialOrders, idx, locals, surchargeRepo, stripe, lastCall >>

(* ---------------------- afterSellerOrdersCreated ----------------------- *)
\* the loop ending after its first seller order
LoopHeadOnce(k) ==
    IF k > 1 \/ k > Len(sellerOrders') THEN
        /\ pc' = "Done"
        /\ locals' = NoLocals
    ELSE
        /\ pc' = "SavePlatformFee"
        /\ locals' =
             [totalCents |-> sellerOrders'[k].totalWithTax,
              platformFee |-> PlatformFee(sellerOrders'[k].totalWithTax,
                                          options.platformFeePercent),
              stripeFee |-> StripeFee(sellerOrders'[k].totalWithTax,
                                      options.platformFeePercent)]

\* the head of the for loop at position k: past the last seller order the
\* method returns; a seller order without a seller channel makes it throw;
\* else createPlatformAndStripeFeeSurcharges starts with (A), (B) and (C)
LoopHead(k) ==
    IF k > Len(sellerOrders') THEN
        /\ pc' = "Done"
        /\ locals' = NoLocals
    ELSE IF SellerChannelOf(sellerOrders'[k]) = NoChannel THEN
        /\ pc' = "Thrown"
        /\ locals' = NoLocals
    ELSE
        /\ pc' = "SavePlatformFee"
        /\ locals' =
             [totalCents |-> sellerOrders'[k].totalWithTax,
              platformFee |-> PlatformFee(sellerOrders'[k].totalWithTax,
                                          options.platformFeePercent),
              stripeFee |-> StripeFee(sellerOrders'[k].totalWithTax,
                                      options.platformFeePercent)]

\* the lookup without the test of its result
FindPaymentMethodUnchecked(found) ==
    /\ pc = "SellerOrdersCreated"
    /\ paymentMethod' = found
    /\ UNCHANGED << settlement, options, connectedAccountId, order,
                    partialOrders, sellerOrders, surchargeRepo,
                    stripe, lastCall >>
    /\ idx' = 1
    /\ LoopHead(1)

\* the lookup of the connected payment method: findOne gives the row with
\* code CONNECTED_PAYMENT_METHOD_CODE or nothing; without it the method
\* returns, with it the loop starts
FindPaymentMethod(found) ==
    /\ pc = "SellerOrdersCreated"
    /\ paymentMethod' = found
    /\ UNCHANGED << settlement, options, connectedAccountId, order,
                    partialOrders, sellerOrders, surchargeRepo,
                    stripe, lastCall >>
    /\ IF found = Undefined
       THEN pc' = "Done" /\ idx' = idx /\ locals' = locals
       ELSE idx' = 1 /\ LoopHead(1)

\* (D): the platform fee row is saved
SavePlatformFeeSurcharge ==
    /\ pc = "SavePlatformFee"
    /\ surchargeRepo' =
          Append(surchargeRepo,
                 FeeSurcharge(options.platformFeeSKU, locals.platformFee,
                              sellerOrders[idx]))
    /\ pc' = "SaveStripeFee"
    /\ UNCHANGED << settlement, options, paymentMethod, connectedAccountId, order,
                    partialOrders, sellerOrders, idx, locals, stripe,
                    lastCall >>

\* (D): the Stripe fee row is saved, and the two rows become the seller
\* order's surcharges
SaveStripeFeeSurcharge ==
    /\ pc = "SaveStripeFee"
    /\ LET platformFeeSurcharge == surchargeRepo[Len(surchargeRepo)]
           stripeFeeSurcharge ==
              FeeSurcharge("SF", locals.stripeFee, sellerOrders[idx])
       IN /\ surchargeRepo' = Append(surchargeRepo, stripeFeeSurcharge)
          /\ sellerOrders' =
                [sellerOrders EXCEPT
                   ![idx].surcharges = << platformFeeSurcharge, stripeFeeSurcharge >>]
    /\ pc' = "ApplyPriceAdjustments"
    /\ UNCHANGED << settlement, options, paymentMethod, connectedAccountId, order,
                    partialOrders, idx, locals, stripe, lastCall >>

\* the step with the totals left as they were
ApplyPriceAdjustmentsSkipped ==
    /\ pc = "ApplyPriceAdjustments"
    /\ pc' = "AddPayment"
    /\ UNCHANGED << settlement, options, paymentMethod, connectedAccountId, order,
                    partialOrders, sellerOrders, idx, locals, surchargeRepo,
                    stripe, lastCall >>

\* orderService.applyPriceAdjustments: the totals follow the surcharges
ApplyPriceAdjustments ==
    /\ pc = "ApplyPriceAdjustments"
    /\ sellerOrders' =
          [sellerOrders EXCEPT
             ![idx].totalWithTax =
                TotalWithTax(sellerOrders[idx].lines, sellerOrders[idx].surcharges,
                             sellerOrders[idx].shippingLines)]
    /\ pc' = "AddPayment"
    /\ UNCHANGED << settlement, options, paymentMethod, connectedAccountId, order,
                    partialOrders, idx, locals, surchargeRepo, stripe,
                    lastCall >>

\* the loop going on to the next seller order whatever the result is
AddPaymentToSellerOrderUnchecked(out) ==
    /\ pc = "AddPayment"
    /\ LET sellerOrder == sellerOrders[idx]
           metadata ==
              ("transfer_group" :> order.code) @@
              ("connectedAccountId" :> connectedAccountId[SellerChannelOf(sellerOrder)])
           amount == sellerOrder.totalWithTax
           done == createPayment(sellerOrder, amount, metadata, out, options,
                                 connectedAccountId, stripe)
       IN /\ lastCall' = CallRecord(sellerOrder, amount, metadata, out, done)
          /\ stripe' = Sent(stripe, done, out)
          /\ sellerOrders' =
                IF done.result.state = "Settled"
                THEN [sellerOrders EXCEPT
                        ![idx].payments = Append(@, done.result),
                        ![idx].state = "PaymentSettled"]
                ELSE sellerOrders
          /\ idx' = idx + 1
          /\ LoopHead(idx + 1)
    /\ UNCHANGED << settlement, options, paymentMethod, connectedAccountId, order,
                    partialOrders, surchargeRepo >>

\* the seller is hydrated and orderService.addPaymentToOrder is called: it
\* calls createPayment for the seller order's outstanding amount; a declined
\* payment comes back as an error result and the method throws
AddPaymentToSellerOrder(out) ==
    /\ pc = "AddPayment"
    /\ LET sellerOrder == sellerOrders[idx]
           metadata ==
              ("transfer_group" :> order.code) @@
              ("connectedAccountId" :> connectedAccountId[SellerChannelOf(sellerOrder)])
           amount == sellerOrder.totalWithTax
           done == createPayment(sellerOrder, amount, metadata, out, options,
                                 connectedAccountId, stripe)
       IN /\ lastCall' = CallRecord(sellerOrder, amount, metadata, out, done)
          /\ stripe' = Sent(stripe, done, out)
          /\ IF done.result.state = "Settled"
             THEN /\ sellerOrders' =
                       [sellerOrders EXCEPT
                          ![idx].payments = Append(@, done.result),
                          ![idx].state = "PaymentSettled"]
                  /\ idx' = idx + 1
                  /\ LoopHead(idx + 1)
             ELSE /\ sellerOrders' = sellerOrders
                  /\ idx' = idx
                  /\ locals' = locals
                  /\ pc' = "Thrown"
    /\ UNCHANGED << settlement, options, paymentMethod, connectedAccountId, order,
                    partialOrders, surchargeRepo >>

Next ==
    \/ \E v \in ProductVariants, s \in ShippingLineIds : AddItemToOrder(v, s)
    \/ \E m \in CustomerMetadata, out \in PaymentIntentOutcomes : AddPaymentToOrder(m, out)
    \/ SplitOrder
    \/ CreateSellerOrders
    \/ \E found \in {Undefined, CONNECTED_PAYMENT_METHOD_CODE} : FindPaymentMethod(found)
    \/ SavePlatformFeeSurcharge
    \/ SaveStripeFeeSurcharge
    \/ ApplyPriceAdjustments
    \/ \E out \in TransferOutcomes : AddPaymentToSellerOrder(out)

Spec == Init /\ [][Next]_vars

\* afterSellerOrdersCreated is one async method whose calls are awaited in
\* turn: once called it takes its next step as long as there is one
AfterSellerOrdersCreated ==
    \/ \E found \in {Undefined, CONNECTED_PAYMENT_METHOD_CODE} : FindPaymentMethod(found)
    \/ SavePlatformFeeSurcharge
    \/ SaveStripeFeeSurcharge
    \/ ApplyPriceAdjustments
    \/ \E out \in TransferOutcomes : AddPaymentToSellerOrder(out)

FairSpec == Spec /\ WF_vars(AfterSellerOrdersCreated)

(* ------------------ the handler under repeated calls ------------------- *)
\* The payment handler as the framework may call it: for an order of any
\* type, with any metadata or none, any number of times, for an order that
\* changes between the calls.

\* the number of requests the gateway is sent
MaxRequests == 2

\* the number of lines of the order under payment
MaxOrderLines == 2

OrderTypes == {"Regular", "Seller", "Aggregate"}
CurrencyCodes == {"BRL", "JPY"}

\* the metadata of an addPaymentToOrder call
PaymentMetadata ==
    { << >>,
      ("connectedAccountId" :> ""),
      ("transfer_group" :> "ORD") @@ ("connectedAccountId" :> "acct_2") }

\* const { connectedAccountId, transfer_group } = metadata || {}, and the
\* spread of metadata: metadata that is not given counts as empty
MetadataOrEmpty(given, metadata) ==
    IF given THEN metadata ELSE << >>

HandlerInit ==
    /\ options = [platformFeePercent |-> 299, platformFeeSKU |-> "MF"]
    /\ paymentMethod = "unread"
    /\ connectedAccountId = (2 :> "acct_2") @@ (3 :> Undefined)
    /\ order \in
          { [id |-> 100, code |-> "ORD", type |-> type,
             customer |-> Undefined,
             currencyCode |-> currencyCode, lines |-> << >>,
             shippingLines |-> OrderShippingLines,
             totalWithTax |-> TotalWithTax(<< >>, << >>, OrderShippingLines)] :
            type \in OrderTypes, currencyCode \in CurrencyCodes }
    /\ partialOrders = << >>
    /\ sellerOrders = << >>
    /\ idx = 0
    /\ locals = NoLocals
    /\ surchargeRepo = << >>
    /\ stripe = [paymentIntents |-> << >>, transfers |-> << >>]
    /\ lastCall = NoCall
    /\ settlement = NoSettlement
    /\ pc = "Active"

\* the order changes between two calls: a line is added
ChangeOrder(variant) ==
    /\ Len(order.lines) < MaxOrderLines
    /\ AddItemToOrder(variant, 2)

\* one createPayment call for the order as it is, for its total
CreatePayment(given, metadata, out) ==
    /\ pc = "Active"
    /\ order.lines # << >>
    /\ Len(stripe.paymentIntents) + Len(stripe.transfers) < MaxRequests
    /\ given \/ metadata = << >>
    /\ order.type = "Seller" => out \in TransferOutcomes
    /\ LET amount == order.totalWithTax
           done == createPayment(order, amount, MetadataOrEmpty(given, metadata),
                                 out, options, connectedAccountId, stripe)
       IN /\ lastCall' = [metadataGiven |-> given] @@
                          CallRecord(order, amount,
                                     MetadataOrEmpty(given, metadata), out, done)
          /\ stripe' = Sent(stripe, done, out)
    /\ settlement' = NoSettlement
    /\ UNCHANGED << options, paymentMethod, connectedAccountId, order,
                    partialOrders, sellerOrders, idx, locals, surchargeRepo, pc >>

\* the customer logs in: from now on the requests have an active user; a
\* seller order is paid by the strategy, for no customer
LogIn ==
    /\ pc = "Active"
    /\ order.type # "Seller"
    /\ order.customer = Undefined
    /\ order' = [order EXCEPT !.customer = "cus_1"]
    /\ UNCHANGED << settlement, options, paymentMethod, connectedAccountId,
                    partialOrders, sellerOrders, idx, locals, surchargeRepo,
                    stripe, lastCall, pc >>

\* one settlePayment call for the order and the payment that the latest
\* createPayment call gave
SettlePayment ==
    /\ pc = "Active"
    /\ lastCall # NoCall
    /\ settlement' = [order |-> order.id,
                      payment |-> lastCall.result,
                      result |-> settlePayment(order, lastCall.result)]
    /\ UNCHANGED << options, paymentMethod, connectedAccountId, order,
                    partialOrders, sellerOrders, idx, locals, surchargeRepo,
                    stripe, lastCall, pc >>

HandlerNext ==
    \/ SettlePayment
    \/ LogIn
    \/ \E v \in {"v1", "v4"} : ChangeOrder(v)
    \/ \E given \in BOOLEAN, m \in PaymentMetadata, out \in PaymentIntentOutcomes :
          CreatePayment(given, m, out)

HandlerSpec == HandlerInit /\ [][HandlerNext]_vars

(* ============================== splitOrder ============================= *)
\* splitOrder has returned: partialOrders is its result for this order
SplitDone == pc \notin {"Active", "PaymentSettled", "PaymentDeclined"}

\* the places <<k, j>> at which a line occurs in the partial orders
Places(line) ==
    { kj \in { <<k, j>> : k \in DOMAIN partialOrders, j \in 1..MaxLines } :
        /\ kj[2] \in DOMAIN partialOrders[kj[1]].lines
        /\ partialOrders[kj[1]].lines[kj[2]] = line }

\* C1: splitOrder partitions the lines by seller channel: a line with a
\* sellerChannelId is in exactly one partial order, the one of its channel;
\* every line of a partial order is a line of the order with that channel;
\* a line without sellerChannelId is in no partial order.
C1_SplitPartitionsLines ==
    SplitDone =>
      /\ \A line \in Range(order.lines) :
            IF line.sellerChannelId # NoChannel
            THEN /\ Cardinality(Places(line)) = 1
                 /\ \A kj \in Places(line) :
                       partialOrders[kj[1]].channelId = line.sellerChannelId
            ELSE Places(line) = {}
      /\ \A k \in DOMAIN partialOrders :
            \A line \in Range(partialOrders[k].lines) :
               /\ line \in Range(order.lines)
               /\ line.sellerChannelId = partialOrders[k].channelId

\* two sellers and a line without seller have been split
C1_Witness ==
    /\ SplitDone
    /\ Len(partialOrders) = 2
    /\ \E line \in Range(order.lines) : line.sellerChannelId = NoChannel

\* C2: splitOrder returns one partial order per distinct sellerChannelId of
\* the lines: the channelIds are pairwise distinct, no partial order is
\* without lines, every state is 'ArrangingPayment', and an order without
\* seller-assigned line gives the empty result.
C2_OnePartialOrderPerSeller ==
    SplitDone =>
      LET sellers == { line.sellerChannelId : line \in Range(order.lines) } \ {NoChannel}
      IN /\ Len(partialOrders) = Cardinality(sellers)
         /\ { partialOrders[k].channelId : k \in DOMAIN partialOrders } = sellers
         /\ \A k, j \in DOMAIN partialOrders :
               partialOrders[k].channelId = partialOrders[j].channelId => k = j
         /\ \A k \in DOMAIN partialOrders :
               /\ partialOrders[k].lines # << >>
               /\ partialOrders[k].state = "ArrangingPayment"
         /\ sellers = {} => partialOrders = << >>

\* two lines of one seller have gone to one partial order
C2_Witness ==
    /\ SplitDone
    /\ \E k \in DOMAIN partialOrders : Len(partialOrders[k].lines) = 2

\* the shipping lines of the order that a line of the partial order names
ReferencedShippingLines(partialOrder) ==
    { sl \in Range(order.shippingLines) :
        \E line \in Range(partialOrder.lines) : line.shippingLineId = sl.id }

\* C3: the shippingLines of a partial order are exactly the shipping lines
\* of the order whose id is the shippingLineId of one of its lines; one that
\* no seller-assigned line names is in no partial order, one that lines of
\* two sellers name is in both.
C3_ShippingLinesFollowLines ==
    SplitDone =>
      /\ \A k \in DOMAIN partialOrders :
            /\ Range(partialOrders[k].shippingLines)
                  = ReferencedShippingLines(partialOrders[k])
            /\ Len(partialOrders[k].shippingLines)
                  = Cardinality(ReferencedShippingLines(partialOrders[k]))
      /\ \A sl \in Range(order.shippingLines) :
            /\ (\A line \in Range(order.lines) :
                   line.sellerChannelId # NoChannel => line.shippingLineId # sl.id)
               => \A k \in DOMAIN partialOrders :
                     sl \notin Range(partialOrders[k].shippingLines)
            /\ \A a, b \in Range(order.lines) :
                  /\ a.sellerChannelId # NoChannel
                  /\ b.sellerChannelId # NoChannel
                  /\ a.sellerChannelId # b.sellerChannelId
                  /\ a.shippingLineId = sl.id
                  /\ b.shippingLineId = sl.id
                  => \A k \in DOMAIN partialOrders :
                        partialOrders[k].channelId \in {a.sellerChannelId, b.sellerChannelId}
                        => sl \in Range(partialOrders[k].shippingLines)

\* one shipping line is shared by two partial orders, the other is named
\* only by a line without seller and is in neither
C3_Witness ==
    /\ SplitDone
    /\ Len(partialOrders) = 2
    /\ \E sl, other \in Range(order.shippingLines) :
          /\ \A k \in DOMAIN partialOrders : partialOrders[k].shippingLines = << sl >>
          /\ \E line \in Range(order.lines) :
                line.sellerChannelId = NoChannel /\ line.shippingLineId = other.id
          /\ other # sl

(* ============================ the fee surcharges ======================= *)
\* the loop of afterSellerOrdersCreated has set the surcharges of seller
\* order k
FeesSaved(k) ==
    \/ k < idx
    \/ k = idx /\ pc \in {"ApplyPriceAdjustments", "AddPayment", "Thrown"}

\* applyPriceAdjustments has returned for seller order k
PricesAdjusted(k) ==
    \/ k < idx
    \/ k = idx /\ pc \in {"AddPayment", "Thrown"}

\* the rows saved for a seller order
SurchargeRows(sellerOrder) ==
    SelectSeq(surchargeRepo, LAMBDA row : row.order = sellerOrder.id)

\* the total of a seller order before any fee surcharge: lines and shipping
GrossTotal(sellerOrder) ==
    SumLinePrices(sellerOrder.lines) + SumPrices(sellerOrder.shippingLines)

\* n is the integer nearest to num / den, a half counted upwards
NearestInteger(n, num, den) ==
    /\ 2 * den * n - den <= 2 * num
    /\ 2 * num < 2 * den * n + den

C5_PlatformFeeAmount ==
    \A k \in DOMAIN sellerOrders :
       FeesSaved(k) =>
         LET total == GrossTotal(sellerOrders[k])
             fee == 0 - sellerOrders[k].surcharges[1].listPrice
         IN /\ NearestInteger(fee, total * options.platformFeePercent, 10000)
            /\ options.platformFeePercent = 299
                  => fee = (total * 299 + 5000) \div 10000
            /\ (k = idx /\ pc # "Thrown") => locals.totalCents = total

\* a total of 5000 at 2.99 % is 149.5, and the fee is 150
C5_Witness ==
    \E k \in DOMAIN sellerOrders :
       /\ FeesSaved(k)
       /\ options.platformFeePercent = 299
       /\ GrossTotal(sellerOrders[k]) = 5000
       /\ sellerOrders[k].surcharges[1].listPrice = 0 - 150

\* C6: the Stripe fee surcharge is minus (the integer nearest, a half up, to
\* total * 3.99 / 100, plus 39), from the same total before surcharges and
\* whatever platformFeePercent is; for a total of 0 it is -39.
C6_StripeFeeAmount ==
    \A k \in DOMAIN sellerOrders :
       FeesSaved(k) =>
         LET total == GrossTotal(sellerOrders[k])
             fee == 0 - sellerOrders[k].surcharges[2].listPrice
         IN /\ NearestInteger(fee - 39, total * 399, 10000)
            /\ total = 0 => sellerOrders[k].surcharges[2].listPrice = 0 - 39

\* a seller order with total 0 carries a Stripe fee of -39, and another
\* one a larger fee although the platform takes 0 %
C6_Witness ==
    /\ options.platformFeePercent = 0
    /\ \E k, j \in DOMAIN sellerOrders :
          /\ FeesSaved(k) /\ FeesSaved(j)
          /\ GrossTotal(sellerOrders[k]) = 0
          /\ sellerOrders[k].surcharges[2].listPrice = 0 - 39
          /\ sellerOrders[j].surcharges[2].listPrice < 0 - 39

\* what the seller is left with: the total before surcharges less both fees
NetTotal(sellerOrder) ==
    LET total == GrossTotal(sellerOrder) IN
    total - ((total * options.platformFeePercent + 5000) \div 10000)
          - ((total * 399 + 5000) \div 10000 + 39)

\* C7: after applyPriceAdjustments the seller order's totalWithTax is its
\* total before the surcharges less the platform fee less the Stripe fee,
\* and the payment added to the seller order, hence the amount handed to
\* createTransfer, is this net amount.
C7_NetTotalIsPaid ==
    \A k \in DOMAIN sellerOrders :
       PricesAdjusted(k) =>
         /\ sellerOrders[k].totalWithTax = NetTotal(sellerOrders[k])
         /\ \A p \in DOMAIN sellerOrders[k].payments :
               sellerOrders[k].payments[p].amount = NetTotal(sellerOrders[k])
         /\ (lastCall # NoCall /\ lastCall.order.id = sellerOrders[k].id) =>
               /\ lastCall.amount = NetTotal(sellerOrders[k])
               /\ lastCall.result.amount = NetTotal(sellerOrders[k])
               /\ \A c \in DOMAIN lastCall.transferCalls :
                     lastCall.transferCalls[c].amount = NetTotal(sellerOrders[k])

\* a seller order of 5000 has been paid 4611: 5000 - 150 - 239
C7_Witness ==
    /\ pc = "Done"
    /\ \E k \in DOMAIN sellerOrders :
          /\ GrossTotal(sellerOrders[k]) = 5000
          /\ Len(sellerOrders[k].payments) = 1
          /\ sellerOrders[k].payments[1].amount = 4611
          /\ sellerOrders[k].totalWithTax = 4611

(* ============================= createPayment =========================== *)
\* C8: createPayment routes by order type: for a Seller order it creates no
\* PaymentIntent and calls createTransfer at most once; for any other order
\* it creates no Transfer and calls createPaymentIntentWithId exactly once.
C8_RoutesByOrderType ==
    /\ lastCall # NoCall =>
          IF lastCall.order.type = "Seller"
          THEN /\ lastCall.paymentIntentCalls = 0
               /\ lastCall.paymentIntentRequests = << >>
               /\ Len(lastCall.transferCalls) <= 1
               /\ Len(lastCall.transferRequests) <= 1
          ELSE /\ lastCall.transferCalls = << >>
               /\ lastCall.transferRequests = << >>
               /\ lastCall.paymentIntentCalls = 1
    /\ \A t \in DOMAIN stripe.transfers :
          \E k \in DOMAIN sellerOrders :
             stripe.transfers[t].request.order = sellerOrders[k].id
    /\ \A i \in DOMAIN stripe.paymentIntents :
          stripe.paymentIntents[i].request.order = order.id

\* the order was paid through a PaymentIntent, a seller order through a
\* Transfer
C8_Witness ==
    /\ lastCall # NoCall
    /\ lastCall.order.type = "Seller"
    /\ Len(lastCall.transferCalls) = 1
    /\ Len(stripe.transfers) = 1
    /\ Len(stripe.paymentIntents) = 1

\* the latest createPayment call was for a Seller order with a
\* connectedAccountId in the metadata, and the transfer call succeeded
TransferSucceeded ==
    /\ lastCall # NoCall
    /\ lastCall.order.type = "Seller"
    /\ ~Falsy(Get(lastCall.metadata, "connectedAccountId"))
    /\ lastCall.outcome = "ok"

\* C9: for a Seller order with a connectedAccountId in the metadata and a
\* transfer call that succeeds, createPayment returns 'Settled' with the
\* requested amount, the Transfer's id as transactionId and metadata that
\* keeps every input key, transfer_group included; the Transfer is asked
\* for with that account as destination and the order's currency code
\* (sent to the gateway in lower case).
C9_SellerTransferSettled ==
    TransferSucceeded =>
      /\ lastCall.result.state = "Settled"
      /\ lastCall.result.amount = lastCall.amount
      /\ lastCall.response.id # Undefined
      /\ lastCall.result.transactionId = lastCall.response.id
      /\ DOMAIN lastCall.metadata \subseteq DOMAIN lastCall.result.metadata
      /\ "transfer_group" \in DOMAIN lastCall.result.metadata
      /\ \A key \in DOMAIN lastCall.metadata :
            lastCall.result.metadata[key] = lastCall.metadata[key]
      /\ Len(lastCall.transferCalls) = 1
      /\ lastCall.transferCalls[1].connectedAccountId
            = lastCall.metadata["connectedAccountId"]
      /\ lastCall.transferCalls[1].currency = lastCall.order.currencyCode
      /\ Len(lastCall.transferRequests) = 1
      /\ lastCall.transferRequests[1].destination
            = lastCall.metadata["connectedAccountId"]
      /\ lastCall.transferRequests[1].currency = "brl"
      /\ lastCall.order.currencyCode = "BRL"

\* a Transfer to the seller's account has settled a seller order's payment
C9_Witness ==
    /\ TransferSucceeded
    /\ lastCall.result.state = "Settled"
    /\ lastCall.result.transactionId = "tr_1"
    /\ lastCall.transferRequests[1].destination = "acct_3"

\* the latest createPayment call was for an order that is no Seller order
PlatformCall == lastCall # NoCall /\ lastCall.order.type # "Seller"

\* what the result of a platform payment has to be once its PaymentIntent
\* is there: settled, for the requested amount, under the PaymentIntent's
\* id, the metadata being the input with clientSecret and transfer_group
\* set on top
SettledUnderPaymentIntent(id, clientSecret) ==
    /\ lastCall.result.state = "Settled"
    /\ lastCall.result.amount = lastCall.amount
    /\ lastCall.result.transactionId = id
    /\ DOMAIN lastCall.result.metadata
          = DOMAIN lastCall.metadata \cup {"clientSecret", "transfer_group"}
    /\ lastCall.result.metadata["clientSecret"] = clientSecret
    /\ lastCall.result.metadata["transfer_group"] = lastCall.order.code
    /\ \A key \in DOMAIN lastCall.metadata \ {"clientSecret", "transfer_group"} :
          lastCall.result.metadata[key] = lastCall.metadata[key]

\* C10 as stated: for an order that is no Seller order, once the
\* PaymentIntent is created at the gateway createPayment returns 'Settled'
\* with the requested amount, the PaymentIntent's id and the input metadata
\* plus clientSecret and transfer_group = order.code.
C10_SettledOnceIntentCreated ==
    (PlatformCall /\ \E i \in DOMAIN stripe.paymentIntents :
                        stripe.paymentIntents[i].created)
      => SettledUnderPaymentIntent(
            "pi_" \o ToString(Len(stripe.paymentIntents)),
            "pi_" \o ToString(Len(stripe.paymentIntents)) \o "_secret")

\* C10 as amended: for an order that is no Seller order, if
\* createPaymentIntentWithId returns, that is the PaymentIntent is created
\* and carries a client secret, createPayment returns 'Settled', never
\* 'Authorized', with the requested amount, the PaymentIntent's id and the
\* input metadata with clientSecret and transfer_group = order.code set on
\* top; a PaymentIntent that comes back without client secret is declined.
C10_SettledOnceIntentReturned ==
    /\ (PlatformCall /\ lastCall.response # NoResponse)
         => /\ lastCall.outcome = "ok"
            /\ SettledUnderPaymentIntent(lastCall.response.id,
                                         lastCall.response.clientSecret)
    /\ (PlatformCall /\ lastCall.outcome = "noSecret")
         => lastCall.result.state = "Declined"
    /\ PlatformCall => lastCall.result.state # "Authorized"

\* a customer's payment with metadata of its own has been settled under a
\* PaymentIntent
C10_Witness ==
    /\ PlatformCall
    /\ lastCall.response # NoResponse
    /\ lastCall.result.state = "Settled"
    /\ lastCall.result.transactionId = "pi_1"
    /\ lastCall.metadata # << >>
    /\ lastCall.result.metadata["transfer_group"] = "ORD"

\* the message of the error that StripeService threw in the latest
\* createPayment call, "none" when it threw nothing: getStripeClient comes
\* first, then (for a PaymentIntent) the search for a connected account,
\* which throws before any request is sent, then the request and the test
\* of the client secret
StripeServiceError ==
    IF lastCall = NoCall THEN "none"
    ELSE IF lastCall.order.type = "Seller"
    THEN IF lastCall.transferCalls = << >> THEN "none"
         ELSE ErrorMessage(lastCall.outcome)
    ELSE IF lastCall.outcome = "noClient" THEN ErrorMessage("noClient")
    ELSE IF lastCall.paymentIntentRequests = << >>
    THEN "Connected Account ID not found for order " \o lastCall.order.code
    ELSE ErrorMessage(lastCall.outcome)

\* C11: createPayment never lets an error of StripeService through: for
\* an order of any type, when createTransfer or createPaymentIntentWithId
\* throws, the result is 'Declined' for the requested amount, without
\* transactionId, with metadata holding errorMessage = the error's message
\* and nothing else; the state of every result is 'Settled' or 'Declined'.
C11_ErrorsAreDeclined ==
    [][ lastCall' # lastCall =>
          /\ lastCall'.result.state \in {"Settled", "Declined"}
          /\ StripeServiceError' # "none" =>
                /\ lastCall'.result.state = "Declined"
                /\ lastCall'.result.amount = lastCall'.amount
                /\ "transactionId" \notin DOMAIN lastCall'.result
                /\ DOMAIN lastCall'.result.metadata = {"errorMessage"}
                /\ lastCall'.result.metadata["errorMessage"]
                      = StripeServiceError' ]_vars

\* the gateway has rejected the second PaymentIntent of an Aggregate
\* order, asked for with metadata
C11_Witness ==
    /\ lastCall # NoCall
    /\ lastCall.order.type = "Aggregate"
    /\ lastCall.outcome = "apiError"
    /\ Len(lastCall.paymentIntentRequests) = 1
    /\ lastCall.metadata # << >>
    /\ lastCall.result.state = "Declined"
    /\ lastCall.result.metadata = ("errorMessage" :> "stripe api error")
    /\ Len(stripe.paymentIntents) = 2

\* the latest createPayment call was for a Seller order whose metadata
\* gives no connected account: no metadata, no entry, or an empty one
NoConnectedAccount ==
    /\ lastCall # NoCall
    /\ lastCall.order.type = "Seller"
    /\ Falsy(Get(lastCall.metadata, "connectedAccountId"))

\* C12: for a Seller order whose payment metadata is absent or holds no or
\* an empty connectedAccountId, createPayment returns 'Declined' with
\* errorMessage 'No "connectedAccountId" found in payment metadata' and
\* does not call createTransfer: no Transfer request reaches the gateway.
C12_NoAccountNoTransfer ==
    [][ NoConnectedAccount' =>
          /\ lastCall'.result.state = "Declined"
          /\ lastCall'.result.metadata["errorMessage"]
                = "No \"connectedAccountId\" found in payment metadata"
          /\ lastCall'.transferCalls = << >>
          /\ lastCall'.transferRequests = << >>
          /\ stripe' = stripe ]_vars

\* a Seller order's payment without metadata has been declined after an
\* earlier Transfer for the same order
C12_Witness ==
    /\ NoConnectedAccount
    /\ ~lastCall.metadataGiven
    /\ lastCall.result.state = "Declined"
    /\ Len(stripe.transfers) = 1
    /\ stripe.transfers[1].created

\* C13: settlePayment answers success true for every order and payment,
\* sends nothing to the payment gateway and leaves the order, the payment
\* and everything else as they are.
C13_SettlePaymentOnlySucceeds ==
    [][ (settlement' # settlement /\ settlement' # NoSettlement) =>
          /\ settlement'.result = [success |-> TRUE]
          /\ settlement'.payment = lastCall.result
          /\ UNCHANGED << options, paymentMethod, connectedAccountId, order,
                          partialOrders, sellerOrders, idx, locals,
                          surchargeRepo, stripe, lastCall, pc >> ]_vars

\* settlePayment has been called for the declined payment of a Seller
\* order, after a Transfer that the gateway rejected
C13_Witness ==
    /\ settlement # NoSettlement
    /\ settlement.result.success
    /\ settlement.payment.state = "Declined"
    /\ order.type = "Seller"
    /\ Len(stripe.transfers) = 1
    /\ ~stripe.transfers[1].created

\* C14: without a PaymentMethod of code CONNECTED_PAYMENT_METHOD_CODE
\* afterSellerOrdersCreated returns normally and changes nothing: no
\* surcharge is saved, every seller order keeps its surcharges and totals,
\* and no payment is added to any seller order, for any list of seller
\* orders.
C14_NoPaymentMethodNoEffect ==
    /\ [][ (pc = "SellerOrdersCreated" /\ paymentMethod' = Undefined) =>
             /\ pc' = "Done"
             /\ UNCHANGED << settlement, options, connectedAccountId, order,
                             partialOrders, sellerOrders, idx, locals,
                             surchargeRepo, stripe, lastCall >> ]_vars
    /\ [](paymentMethod = Undefined =>
             /\ pc = "Done"
             /\ surchargeRepo = << >>
             /\ stripe.transfers = << >>
             /\ \A k \in DOMAIN sellerOrders :
                   /\ sellerOrders[k] = NewSellerOrder(order, partialOrders[k], k)
                   /\ sellerOrders[k].surcharges = << >>
                   /\ sellerOrders[k].payments = << >>)

\* the method has returned for two seller orders without a connected
\* payment method
C14_Witness ==
    /\ paymentMethod = Undefined
    /\ pc = "Done"
    /\ Len(sellerOrders) = 2
    /\ sellerOrders[2].totalWithTax > 0

\* addPaymentToOrder has returned a payment, not an error, for seller
\* order j, after its two surcharges and its price adjustment
PaymentAdded(j) ==
    /\ Len(SurchargeRows(sellerOrders[j])) = 2
    /\ sellerOrders[j].totalWithTax = NetTotal(sellerOrders[j])
    /\ Len(sellerOrders[j].payments) = 1
    /\ sellerOrders[j].payments[1].state = "Settled"

\* C15: afterSellerOrdersCreated works strictly in sequence.  For every
\* seller order, in list order: the platform fee surcharge is saved before
\* the Stripe fee surcharge, both are saved before applyPriceAdjustments
\* is called, applyPriceAdjustments has completed before addPaymentToOrder
\* is called, and nothing is done for a seller order before
\* addPaymentToOrder has returned a non-error result for every seller
\* order ahead of it in the list; after an error result nothing is done.
C15_StrictlySequential ==
    [][ /\ \A k \in DOMAIN sellerOrders :
             LET rows == SurchargeRows(sellerOrders[k])
                 saved == Len(SurchargeRows(sellerOrders[k])') > Len(rows)
                 adjusted == sellerOrders'[k].totalWithTax
                                # sellerOrders[k].totalWithTax
                 paid == /\ lastCall' # lastCall
                         /\ lastCall'.order.id = sellerOrders[k].id
             IN /\ (saved \/ paid \/ sellerOrders'[k] # sellerOrders[k]) =>
                      \A j \in 1..(k - 1) : PaymentAdded(j)
                /\ saved =>
                      /\ surchargeRepo' =
                            Append(surchargeRepo, surchargeRepo'[Len(surchargeRepo')])
                      /\ IF rows = << >>
                         THEN surchargeRepo'[Len(surchargeRepo')].sku
                                 = options.platformFeeSKU
                         ELSE /\ Len(rows) = 1
                              /\ rows[1].sku = options.platformFeeSKU
                              /\ surchargeRepo'[Len(surchargeRepo')].sku = "SF"
                      /\ ~adjusted /\ ~paid
                      /\ sellerOrders[k].payments = << >>
                /\ adjusted =>
                      /\ Len(rows) = 2
                      /\ sellerOrders[k].surcharges = rows
                      /\ ~paid
                      /\ sellerOrders[k].payments = << >>
                /\ paid =>
                      /\ Len(rows) = 2
                      /\ sellerOrders[k].totalWithTax = NetTotal(sellerOrders[k])
                      /\ sellerOrders[k].payments = << >>
                      /\ ~adjusted
        /\ pc = "Thrown" => UNCHANGED vars ]_vars

\* the second of two seller orders has been paid after the first
C15_Witness ==
    /\ Len(sellerOrders) = 2
    /\ pc = "Done"
    /\ paymentMethod = CONNECTED_PAYMENT_METHOD_CODE
    /\ PaymentAdded(1)
    /\ PaymentAdded(2)
    /\ lastCall.order.id = sellerOrders[2].id
    /\ Len(surchargeRepo) = 4

\* C16: with the connected payment method present and every seller order
\* on a seller channel, afterSellerOrdersCreated comes to an end: it
\* returns, or it throws on an error result of a framework call.  When it
\* returns, n seller orders have got exactly one payment and exactly two
\* saved surcharges each: 2n surcharges and n payments.
C16_TerminatesWithAllPaid ==
    /\ (pc = "SellerOrdersCreated") ~> (pc = "Done" \/ pc = "Thrown")
    /\ [](pc = "Thrown" =>
             /\ lastCall.order.type = "Seller"
             /\ lastCall.result.state = "Declined")
    /\ []((pc = "Done" /\ paymentMethod = CONNECTED_PAYMENT_METHOD_CODE) =>
             /\ Len(surchargeRepo) = 2 * Len(sellerOrders)
             /\ \A k \in DOMAIN sellerOrders :
                   /\ SellerChannelOf(sellerOrders[k]) # NoChannel
                   /\ Len(SurchargeRows(sellerOrders[k])) = 2
                   /\ Len(sellerOrders[k].surcharges) = 2
                   /\ Len(sellerOrders[k].payments) = 1
                   /\ Cardinality({ i \in DOMAIN stripe.transfers :
                                      /\ stripe.transfers[i].request.order
                                            = sellerOrders[k].id
                                      /\ stripe.transfers[i].created }) = 1)

\* the method has returned after two seller orders: four surcharges, two
\* payments
C16_Witness ==
    /\ pc = "Done"
    /\ paymentMethod = CONNECTED_PAYMENT_METHOD_CODE
    /\ Len(sellerOrders) = 2
    /\ Len(surchargeRepo) = 4
    /\ Len(sellerOrders[1].payments) = 1
    /\ Len(sellerOrders[2].payments) = 1
    /\ Len(stripe.transfers) = 2

\* the total of the order of a PaymentIntent request in Stripe's minor
\* units: the request's amount is the order's totalWithTax
TotalInMinorUnits(request) ==
    getAmountInStripeMinorUnits(request.amount, order.currencyCode)

\* C17: the idempotency key sent with a PaymentIntent creation depends on
\* the order's code and the order's total in minor units alone: two
\* requests for the same order code and the same total carry the same key,
\* whatever customer, fee, destination, metadata and gateway outcome go
\* with them, and two requests for the same order code and different
\* totals in minor units carry different keys.
C17_KeyFromCodeAndTotal ==
    \A i \in DOMAIN stripe.paymentIntents :
       LET a == stripe.paymentIntents[i].request IN
       /\ a.order = order.id
       /\ a.idempotencyKey
             = order.code \o "_" \o ToString(TotalInMinorUnits(a))
       /\ \A j \in DOMAIN stripe.paymentIntents :
             LET b == stripe.paymentIntents[j].request IN
             (a.idempotencyKey = b.idempotencyKey)
                <=> (TotalInMinorUnits(a) = TotalInMinorUnits(b))

\* two requests with one key, a guest's and a logged-in customer's, the
\* gateway having rejected the first, for an order in a currency without
\* minor units
C17_Witness ==
    /\ Len(stripe.paymentIntents) = 2
    /\ stripe.paymentIntents[1].request.idempotencyKey
          = stripe.paymentIntents[2].request.idempotencyKey
    /\ stripe.paymentIntents[1].request.customer = Undefined
    /\ stripe.paymentIntents[2].request.customer = "cus_1"
    /\ ~stripe.paymentIntents[1].created
    /\ stripe.paymentIntents[2].created
    /\ order.currencyCode = "JPY"
    /\ stripe.paymentIntents[2].request.idempotencyKey = "ORD_55"

\* the createPayment call of this step is for a Seller order with a
\* connectedAccountId in its metadata and passes the getStripeClient checks
TransferCall ==
    /\ lastCall' # NoCall
    /\ lastCall' # lastCall \/ stripe' # stripe
    /\ lastCall'.order.type = "Seller"
    /\ ~Falsy(Get(lastCall'.metadata, "connectedAccountId"))
    /\ lastCall'.outcome # "noClient"

\* C18: this code does not deduplicate Transfers.  createTransfer sends no
\* idempotency key, and every createPayment call for a Seller order with a
\* connectedAccountId that passes the getStripeClient checks sends exactly
\* one Transfer creation request, whatever was sent before: n such calls
\* for one seller order leave n Transfer requests.
C18_OneTransferPerCall ==
    [][ /\ TransferCall =>
             /\ Len(lastCall'.transferRequests) = 1
             /\ stripe'.transfers =
                   Append(stripe.transfers,
                          [request |-> lastCall'.transferRequests[1],
                           created |-> lastCall'.outcome = "ok"])
             /\ "idempotencyKey" \notin DOMAIN lastCall'.transferRequests[1]
        /\ stripe'.transfers # stripe.transfers => TransferCall ]_vars

\* two calls for one seller order have left two equal Transfer requests,
\* and both Transfers were created
C18_Witness ==
    /\ order.type = "Seller"
    /\ Len(stripe.transfers) = 2
    /\ stripe.transfers[1].request = stripe.transfers[2].request
    /\ stripe.transfers[1].created
    /\ stripe.transfers[2].created
    /\ stripe.transfers[2].request.destination = "acct_2"
    /\ lastCall.result.transactionId = "tr_2"

\* the amounts of the Transfers that the gateway created
RECURSIVE TransferredAmount(_)
TransferredAmount(transfers) ==
    IF transfers = << >> THEN 0
    ELSE (IF Head(transfers).created THEN Head(transfers).request.amount ELSE 0)
         + TransferredAmount(Tail(transfers))

\* C19: for one checkout the funds routed to connected accounts never
\* exceed what the customer is charged: the share of the aggregate order's
\* PaymentIntent that goes to its destination account (amount less
\* application_fee_amount) plus the amounts of all Transfers created for
\* the checkout's seller orders is at most the PaymentIntent's amount, and
\* no seller is paid for one seller order both as the PaymentIntent's
\* destination and by a Transfer.
C19_RoutedFundsWithinCharge ==
    \A i \in DOMAIN stripe.paymentIntents :
       LET pi == stripe.paymentIntents[i].request IN
       stripe.paymentIntents[i].created =>
         /\ (pi.amount - pi.application_fee_amount)
               + TransferredAmount(stripe.transfers) <= pi.amount
         /\ \A t \in DOMAIN stripe.transfers :
               stripe.transfers[t].created =>
                  stripe.transfers[t].request.destination # pi.destination

====
